---- MODULE Spec2Model ----
\* Model of airflow_wsl_test/dags/load_data_to_snowflake.py:
\*   - convert_excel_to_csv (first worksheet of a workbook -> CSV text),
\*   - delete_file (best-effort os.remove),
\*   - the module body that builds the DAG 'load_data_to_snowflake'.
\* Text is a sequence of one-character strings, so that quoting, delimiters
\* and line terminators written by csv.writer are visible to the properties.
EXTENDS Integers, Sequences, FiniteSets, TLC

VARIABLES fs, undeletable, dag, last

vars == <<fs, undeletable, dag, last>>

Range(s) == {s[i] : i \in 1..Len(s)}

-----------------------------------------------------------------------------
\* Module-level configuration (lines 34-56, 105-110)

table_names == <<"device", "store", "transaction">>

Tables == Range(table_names)

base_directory == "sumup_data"

\* os.path.join(base_directory, name)
path_join(dir, name) == dir \o "/" \o name

csv_file_name(table_name) == table_name \o ".csv"

excel_file_name(table_name) == table_name \o ".xlsx"

csv_path(table_name) == path_join(base_directory, csv_file_name(table_name))

excel_path(table_name) == path_join(base_directory, excel_file_name(table_name))

ExcelPaths == {excel_path(t) : t \in Tables}

CsvPaths == {csv_path(t) : t \in Tables}

Paths == ExcelPaths \cup CsvPaths

-----------------------------------------------------------------------------
\* Files and cell values

NoFile == [kind |-> "absent", worksheets |-> <<>>, data |-> <<>>]

XlsxFile(sheets) == [kind |-> "xlsx", worksheets |-> sheets, data |-> <<>>]

TextFile(chars) == [kind |-> "text", worksheets |-> <<>>, data |-> chars]

None == [type |-> "NoneType", s |-> <<>>, n |-> 0]

Str(chars) == [type |-> "str", s |-> chars, n |-> 0]

PyInt(i) == [type |-> "int", s |-> <<>>, n |-> i]

\* a worksheet cell as iter_rows() yields it: an object with a .value
Cell(v) == [value |-> v]

CellRow(values) == [i \in 1..Len(values) |-> Cell(values[i])]

-----------------------------------------------------------------------------
\* csv.writer(csv_file) with the default ("excel") dialect, QUOTE_MINIMAL

delimiter == ","

quotechar == "\""

lineterminator == <<"\r", "\n">>

DigitChars == <<"0", "1", "2", "3", "4", "5", "6", "7", "8", "9">>

RECURSIVE Digits(_)
Digits(n) ==
    IF n < 10 THEN <<DigitChars[n + 1]>>
    ELSE Digits(n \div 10) \o <<DigitChars[(n % 10) + 1]>>

\* str(n) for an int
IntToStr(n) == IF n < 0 THEN <<"-">> \o Digits(0 - n) ELSE Digits(n)

\* the text csv.writer writes for one value: None -> '', str as is, else str(v)
FieldText(value) ==
    CASE value.type = "NoneType" -> <<>>
      [] value.type = "str" -> value.s
      [] value.type = "int" -> IntToStr(value.n)

NeedsQuote(text) ==
    \E i \in 1..Len(text) :
        text[i] \in ({delimiter, quotechar} \cup Range(lineterminator))

RECURSIVE Doubled(_)
Doubled(text) ==
    IF text = <<>> THEN <<>>
    ELSE (IF Head(text) = quotechar THEN <<quotechar, quotechar>>
          ELSE <<Head(text)>>) \o Doubled(Tail(text))

\* join_append: add one field to the record under construction
join_append(rec, num_fields, text, quoted) ==
    (IF num_fields > 0 THEN rec \o <<delimiter>> ELSE rec)
    \o (IF quoted \/ NeedsQuote(text)
        THEN <<quotechar>> \o Doubled(text) \o <<quotechar>>
        ELSE text)

RECURSIVE join_fields(_, _, _)
join_fields(row_data, i, rec) ==
    IF i > Len(row_data) THEN rec
    ELSE join_fields(row_data, i + 1,
                     join_append(rec, i - 1, FieldText(row_data[i]), FALSE))

\* writer.writerow(row_data): the characters appended to the file
writerow(row_data) ==
    LET rec == join_fields(row_data, 1, <<>>)
    IN (IF Len(row_data) > 0 /\ Len(rec) = 0
        THEN join_append(<<>>, 0, <<>>, TRUE)
        ELSE rec) \o lineterminator

-----------------------------------------------------------------------------
\* convert_excel_to_csv (lines 71-81)

\* load_workbook(excel_path): the workbook, or the error opening it
load_workbook(files, excel_p) ==
    IF files[excel_p].kind = "xlsx"
    THEN [exc |-> "none", worksheets |-> files[excel_p].worksheets]
    ELSE IF files[excel_p].kind = "absent"
         THEN [exc |-> "FileNotFoundError", worksheets |-> <<>>]
         ELSE [exc |-> "InvalidFileException", worksheets |-> <<>>]

\* seeded fault: takes the last sheet of the workbook instead of the first
data_sheet_last(excel_file) ==
    excel_file.worksheets[Len(excel_file.worksheets)]

\* excel_file.worksheets[0]: the first sheet (sequences here start at 1)
data_sheet(excel_file) == excel_file.worksheets[1]

\* seeded fault: leaves empty cells out of the row
row_data_skip_none(row) ==
    SelectSeq([i \in 1..Len(row) |-> row[i].value],
              LAMBDA v : v.type # "NoneType")

\* [cell.value for cell in row]
row_data(row) == [i \in 1..Len(row) |-> row[i].value]

\* seeded fault: opens the destination in append mode
open_a(files, csv_p, fault) ==
    IF fault = 0
    THEN [exc |-> "PermissionError", fs |-> files]
    ELSE [exc |-> "none",
          fs |-> [files EXCEPT ![csv_p] =
                     IF @.kind = "text" THEN @ ELSE TextFile(<<>>)]]

\* open(csv_path, 'w', encoding='utf-8', newline=''): creates or truncates.
\* fault = 0 is the environment refusing the open.
open_w(files, csv_p, fault) ==
    IF fault = 0
    THEN [exc |-> "PermissionError", fs |-> files]
    ELSE [exc |-> "none", fs |-> [files EXCEPT ![csv_p] = TextFile(<<>>)]]

\* seeded fault: removes the partial destination when a write fails
RECURSIVE write_rows_cleanup(_, _, _, _, _)
write_rows_cleanup(files, csv_p, rows, i, fault) ==
    IF i > Len(rows) THEN [exc |-> "none", fs |-> files]
    ELSE IF fault = i
    THEN [exc |-> "OSError", fs |-> [files EXCEPT ![csv_p] = NoFile]]
    ELSE write_rows_cleanup(
             [files EXCEPT ![csv_p] =
                 TextFile(@.data \o writerow([j \in 1..Len(rows[i]) |->
                                                 rows[i][j].value]))],
             csv_p, rows, i + 1, fault)

\* for row in data_sheet.iter_rows(): writer.writerow(row_data)
\* fault = i is the environment failing the write of the i-th row.
RECURSIVE write_rows(_, _, _, _, _)
write_rows(files, csv_p, rows, i, fault) ==
    IF i > Len(rows) THEN [exc |-> "none", fs |-> files]
    ELSE IF fault = i THEN [exc |-> "OSError", fs |-> files]
    ELSE write_rows(
             [files EXCEPT ![csv_p] =
                 TextFile(@.data \o writerow(row_data(rows[i])))],
             csv_p, rows, i + 1, fault)

\* seeded fault: opens the destination before loading the workbook
convert_open_first(files, excel_p, csv_p, fault) ==
    LET csv_file == open_w(files, csv_p, fault)
    IN IF csv_file.exc # "none"
       THEN csv_file
       ELSE LET excel_file == load_workbook(csv_file.fs, excel_p)
            IN IF excel_file.exc # "none"
               THEN [exc |-> excel_file.exc, fs |-> csv_file.fs]
               ELSE write_rows(csv_file.fs, csv_p, data_sheet(excel_file),
                               1, fault)

convert_excel_to_csv(files, excel_p, csv_p, fault) ==
    LET excel_file == load_workbook(files, excel_p)
    IN IF excel_file.exc # "none"
       THEN [exc |-> excel_file.exc, fs |-> files]
       ELSE LET csv_file == open_w(files, csv_p, fault)
            IN IF csv_file.exc # "none"
               THEN csv_file
               ELSE write_rows(csv_file.fs, csv_p, data_sheet(excel_file),
                               1, fault)

\* number of points at which the environment can fail a conversion of excel_p
NumRows(files, excel_p) ==
    IF files[excel_p].kind = "xlsx" THEN Len(files[excel_p].worksheets[1])
    ELSE 0

-----------------------------------------------------------------------------
\* delete_file (lines 84-93)

\* Python's exception hierarchy, as far as os.remove uses it
Superclasses(exc) ==
    CASE exc = "FileNotFoundError" ->
             {"FileNotFoundError", "OSError", "Exception", "BaseException"}
      [] exc = "PermissionError" ->
             {"PermissionError", "OSError", "Exception", "BaseException"}
      [] exc = "OSError" -> {"OSError", "Exception", "BaseException"}
      [] OTHER -> {"BaseException"}

\* os.remove(file_path); err is what the OS answers for a file it will not remove
os_remove(files, locked, file_path, err) ==
    IF files[file_path].kind = "absent"
    THEN [exc |-> "FileNotFoundError", fs |-> files]
    ELSE IF file_path \in locked
         THEN [exc |-> err, fs |-> files]
         ELSE [exc |-> "none", fs |-> [files EXCEPT ![file_path] = NoFile]]

\* seeded fault: no catch-all handler after the two specific ones
delete_file_no_catch_all(files, locked, file_path, err) ==
    LET r == os_remove(files, locked, file_path, err)
    IN IF r.exc = "none"
       THEN [exc |-> "none", fs |-> r.fs, log |-> "has been deleted"]
       ELSE IF "FileNotFoundError" \in Superclasses(r.exc)
       THEN [exc |-> "none", fs |-> r.fs, log |-> "not found"]
       ELSE IF "PermissionError" \in Superclasses(r.exc)
       THEN [exc |-> "none", fs |-> r.fs, log |-> "Permission denied"]
       ELSE [exc |-> r.exc, fs |-> r.fs, log |-> ""]

\* seeded fault: a missing file is reported by raising
delete_file_raise_missing(files, locked, file_path, err) ==
    LET r == os_remove(files, locked, file_path, err)
    IN IF r.exc = "none"
       THEN [exc |-> "none", fs |-> r.fs, log |-> "has been deleted"]
       ELSE IF "FileNotFoundError" \in Superclasses(r.exc)
       THEN [exc |-> r.exc, fs |-> r.fs, log |-> "not found"]
       ELSE [exc |-> "none", fs |-> r.fs, log |-> "An error occurred"]

\* seeded fault: reports the deletion without calling os.remove
delete_file_dry(files, locked, file_path, err) ==
    [exc |-> "none", fs |-> files, log |-> "has been deleted"]

\* the try/except of delete_file: the first matching handler prints and returns
delete_file(files, locked, file_path, err) ==
    LET r == os_remove(files, locked, file_path, err)
    IN IF r.exc = "none"
       THEN [exc |-> "none", fs |-> r.fs, log |-> "has been deleted"]
       ELSE IF "FileNotFoundError" \in Superclasses(r.exc)
       THEN [exc |-> "none", fs |-> r.fs, log |-> "not found"]
       ELSE IF "PermissionError" \in Superclasses(r.exc)
       THEN [exc |-> "none", fs |-> r.fs, log |-> "Permission denied"]
       ELSE IF "Exception" \in Superclasses(r.exc)
       THEN [exc |-> "none", fs |-> r.fs, log |-> "An error occurred"]
       ELSE [exc |-> r.exc, fs |-> r.fs, log |-> ""]

RemoveErrors == {"PermissionError", "OSError"}

-----------------------------------------------------------------------------
\* The module body that builds the DAG (lines 96-153)

PythonOperator(task_id, python_callable, op_args) ==
    [task_id |-> task_id, operator |-> "PythonOperator",
     python_callable |-> python_callable, op_args |-> op_args, sql |-> ""]

SnowflakeOperator(task_id, sql) ==
    [task_id |-> task_id, operator |-> "SnowflakeOperator",
     python_callable |-> "", op_args |-> <<>>, sql |-> sql]

stage_sql(table_name) ==
    "PUT file://" \o csv_path(table_name)
        \o " @SUMUP_RAW_DATA AUTO_COMPRESS=TRUE"

\* os.path.basename(csv_path) is csv_file_name
copy_sql(table_name) ==
    "TRUNCATE " \o table_name \o "; COPY INTO " \o table_name
        \o " FROM '@SUMUP_RAW_DATA/" \o csv_file_name(table_name)
        \o "' FILE_FORMAT = (TYPE = 'CSV' FIELD_OPTIONALLY_ENCLOSED_BY = '\"')"
        \o " ON_ERROR = 'CONTINUE';"

\* the string-valued names bound in the module's namespace while the body of
\* the loop runs for table_name (lines 34-35, 105-110)
loop_names(table_name) ==
    [n \in {"file_directory", "base_directory", "table_name", "csv_file_name",
            "excel_file_name", "csv_path", "excel_path"} |->
        CASE n = "file_directory" -> "dags"
          [] n = "base_directory" -> base_directory
          [] n = "table_name" -> table_name
          [] n = "csv_file_name" -> csv_file_name(table_name)
          [] n = "excel_file_name" -> excel_file_name(table_name)
          [] n = "csv_path" -> csv_path(table_name)
          [] n = "excel_path" -> excel_path(table_name)]

add_task(d, task) == [d EXCEPT !.tasks = @ \cup {task}]

\* a >> b >> c >> e
chain(d, a, b, c, e) ==
    [d EXCEPT !.edges = @ \cup {<<a.task_id, b.task_id>>,
                                <<b.task_id, c.task_id>>,
                                <<c.task_id, e.task_id>>}]

\* one pass through the body of `for table_name in table_names` (lines 107-153).
\* Reading a name that is not bound raises NameError and ends the module body.
loop_body(d, table_name) ==
    LET names == loop_names(table_name)
        convert_to_csv ==
            PythonOperator("convert_" \o names["excel_file_name"] \o "_to_csv",
                           "convert_excel_to_csv",
                           <<names["excel_path"], names["csv_path"]>>)
        stage_task ==
            SnowflakeOperator("stage_" \o names["csv_file_name"] \o "_to_snowflake",
                              stage_sql(table_name))
        copy_task ==
            SnowflakeOperator("copy_" \o names["table_name"] \o "_to_warehouse",
                              copy_sql(table_name))
        d3 == add_task(add_task(add_task(d, convert_to_csv), stage_task),
                       copy_task)
    IN IF "file_name" \notin DOMAIN names
       THEN [d3 EXCEPT !.exc = "NameError"]
       ELSE LET delete_csv ==
                    PythonOperator("delete_" \o names["file_name"] \o ".csv",
                                   "delete_file", <<names["csv_path"]>>)
            IN chain(add_task(d3, delete_csv),
                     convert_to_csv, stage_task, copy_task, delete_csv)

RECURSIVE for_table_names(_, _)
for_table_names(d, i) ==
    IF d.exc # "none" \/ i > Len(table_names) THEN d
    ELSE for_table_names(loop_body(d, table_names[i]), i + 1)

\* the `with DAG(...) as dag:` block run to its end or to its first exception
build_dag(d) ==
    LET r == for_table_names(d, 1)
    IN [r EXCEPT !.state = IF r.exc = "none" THEN "loaded" ELSE "import_error"]

EmptyDag == [state |-> "unloaded", exc |-> "none", tasks |-> {}, edges |-> {}]

-----------------------------------------------------------------------------
\* Inputs: the workbooks and files the pipeline finds in base_directory

MaxRows == 2

\* rows as iter_rows() yields them
RowChoices ==
    { CellRow(<<None>>),
      CellRow(<<Str(<<"a">>), None>>),
      CellRow(<<Str(<<",">>), Str(<<"\"">>), Str(<<"\r", "\n">>)>>),
      CellRow(<<PyInt(-12), Str(<<>>)>>) }

Sheets == UNION {[1..n -> RowChoices] : n \in 0..MaxRows}

\* the workbook of the end-to-end examples, followed by a second sheet
ExampleSheet ==
    << CellRow(<<Str(<<"i", "d">>), Str(<<"n", "a", "m", "e">>)>>),
       CellRow(<<PyInt(1), Str(<<"A", "l", "i", "c", "e">>)>>),
       CellRow(<<PyInt(3), Str(<<>>)>>) >>

OtherSheet == << CellRow(<<Str(<<"z">>)>>), CellRow(<<Str(<<"z">>)>>) >>

StaleCsv == TextFile(<<"o", "l", "d", "\r", "\n">>)

\* what base_directory may hold before the first call: any bounded workbook
\* for the first table, the example workbook for the second, no workbook for
\* the others; each CSV path is free or holds a file of an earlier run
InitialFiles(sh, old) ==
    [p \in Paths |->
        IF p = excel_path(table_names[1]) THEN XlsxFile(<<sh>>)
        ELSE IF p = excel_path(table_names[2])
        THEN XlsxFile(<<ExampleSheet, OtherSheet>>)
        ELSE IF p \in ExcelPaths THEN NoFile
        ELSE IF p \in old THEN StaleCsv ELSE NoFile]

NoCall == [fn |-> "none", src |-> "", path |-> "", raised |-> "none",
           log |-> "", overwrote |-> FALSE]

-----------------------------------------------------------------------------
\* State machine

Init ==
    /\ \E sh \in Sheets, old \in {{}} \cup {{p} : p \in CsvPaths} :
          fs = InitialFiles(sh, old)
    /\ undeletable \in {{}} \cup {{p} : p \in CsvPaths}
    /\ dag = EmptyDag
    /\ last = NoCall

\* the scheduler imports the DAG file: the module body runs once
LoadDag ==
    /\ dag.state = "unloaded"
    /\ dag' = build_dag(dag)
    /\ UNCHANGED <<fs, undeletable, last>>

\* a call convert_excel_to_csv(excel_path, csv_path) with the op_args of line 115
Convert ==
    /\ dag.state # "unloaded"
    /\ \E t \in Tables :
         \E fault \in 0..(NumRows(fs, excel_path(t)) + 1) :
            LET r == convert_excel_to_csv(fs, excel_path(t), csv_path(t), fault)
            IN /\ fs' = r.fs
               /\ last' = [fn |-> "convert_excel_to_csv",
                           src |-> excel_path(t), path |-> csv_path(t),
                           raised |-> r.exc, log |-> "",
                           overwrote |-> fs[csv_path(t)].kind # "absent"]
    /\ UNCHANGED <<undeletable, dag>>

\* a call delete_file(csv_path) with the op_args of line 148
Delete ==
    /\ dag.state # "unloaded"
    /\ \E t \in Tables, err \in RemoveErrors :
          LET r == delete_file(fs, undeletable, csv_path(t), err)
          IN /\ fs' = r.fs
             /\ last' = [fn |-> "delete_file", src |-> "",
                         path |-> csv_path(t), raised |-> r.exc,
                         log |-> r.log, overwrote |-> FALSE]
    /\ UNCHANGED <<undeletable, dag>>

Next == LoadDag \/ Convert \/ Delete

Spec == Init /\ [][Next]_vars

-----------------------------------------------------------------------------
\* Reading a CSV text back: csv.reader with the default dialect, used by the
\* properties to count the records and fields of a destination file.

IsNewline(c) == c \in {"\r", "\n"}

\* length of the line terminator that starts at position i
NewlineLen(s, i) ==
    IF s[i] = "\r" /\ i < Len(s) /\ s[i + 1] = "\n" THEN 2 ELSE 1

RECURSIVE Parse(_, _, _, _, _, _)
Parse(s, i, st, field, rec, recs) ==
    IF i > Len(s)
    THEN IF st = "START_RECORD" THEN recs
         ELSE Append(recs, Append(rec, field))
    ELSE LET c == s[i]
         IN CASE st = "START_RECORD" /\ IsNewline(c) ->
                   Parse(s, i + NewlineLen(s, i), "START_RECORD", <<>>, <<>>,
                         Append(recs, <<>>))
              [] st = "START_RECORD" /\ ~IsNewline(c) ->
                   Parse(s, i, "START_FIELD", <<>>, <<>>, recs)
              [] st \in {"START_FIELD", "IN_FIELD", "QUOTE_IN_QUOTED_FIELD"}
                   /\ IsNewline(c) ->
                   Parse(s, i + NewlineLen(s, i), "START_RECORD", <<>>, <<>>,
                         Append(recs, Append(rec, field)))
              [] st \in {"START_FIELD", "IN_FIELD", "QUOTE_IN_QUOTED_FIELD"}
                   /\ c = delimiter ->
                   Parse(s, i + 1, "START_FIELD", <<>>, Append(rec, field), recs)
              [] st = "START_FIELD" /\ c = quotechar ->
                   Parse(s, i + 1, "IN_QUOTED_FIELD", <<>>, rec, recs)
              [] st = "QUOTE_IN_QUOTED_FIELD" /\ c = quotechar ->
                   Parse(s, i + 1, "IN_QUOTED_FIELD", Append(field, c), rec, recs)
              [] st = "IN_QUOTED_FIELD" /\ c = quotechar ->
                   Parse(s, i + 1, "QUOTE_IN_QUOTED_FIELD", field, rec, recs)
              [] st = "IN_QUOTED_FIELD" /\ c # quotechar ->
                   Parse(s, i + 1, "IN_QUOTED_FIELD", Append(field, c), rec, recs)
              [] OTHER ->
                   Parse(s, i + 1, "IN_FIELD", Append(field, c), rec, recs)

\* the records of a CSV text, each a sequence of field texts
Records(chars) == Parse(chars, 1, "START_RECORD", <<>>, <<>>, <<>>)

\* the texts of the values of one worksheet row
RowTexts(row) == [j \in 1..Len(row) |-> FieldText(row[j].value)]

-----------------------------------------------------------------------------
\* Properties of convert_excel_to_csv

LastConvertOk == last.fn = "convert_excel_to_csv" /\ last.raised = "none"

\* the rows of the first sheet of the workbook at path p
FirstSheetRows(p) == fs[p].worksheets[1]

\* the records read back from the CSV file at path p
FileRecords(p) == Records(fs[p].data)

\* C1: after a successful conversion the destination holds exactly one
\* record per row of the first sheet, the i-th record being the values of the
\* i-th row (nothing dropped, duplicated, reordered or taken from another sheet).
C1_RecordsMatchRows ==
    LastConvertOk =>
        LET rows == FirstSheetRows(last.src)
            recs == FileRecords(last.path)
        IN /\ fs[last.path].kind = "text"
           /\ Len(recs) = Len(rows)
           /\ \A i \in 1..Len(rows) : recs[i] = RowTexts(rows[i])

C1_Witness ==
    /\ LastConvertOk
    /\ Len(fs[last.src].worksheets) >= 2
    /\ Len(FirstSheetRows(last.src)) >= 2

\* C2: after a successful conversion every record has as many fields as its
\* source row has cells; ragged rows are neither padded nor truncated.
C2_FieldCounts ==
    LastConvertOk =>
        LET rows == FirstSheetRows(last.src)
            recs == FileRecords(last.path)
        IN /\ DOMAIN recs = DOMAIN rows
           /\ \A i \in DOMAIN rows : Len(recs[i]) = Len(rows[i])

C2_Witness ==
    /\ LastConvertOk
    /\ \E i, j \in DOMAIN FirstSheetRows(last.src) :
          Len(FirstSheetRows(last.src)[i]) < Len(FirstSheetRows(last.src)[j])

\* C3: a conversion whose source path holds no workbook raises, and a
\* destination path that held no file before the call holds none after it.
C3_MissingSource ==
    [][(last'.fn = "convert_excel_to_csv" /\ fs[last'.src].kind = "absent")
         => /\ last'.raised # "none"
            /\ (fs[last'.path].kind = "absent"
                  => fs'[last'.path].kind = "absent")]_vars

C3_Witness ==
    /\ last.fn = "convert_excel_to_csv"
    /\ last.raised = "FileNotFoundError"
    /\ ~last.overwrote
    /\ fs[last.path].kind = "absent"

\* what the conversion of src leaves at dst when dst does not exist beforehand
FreshOutput(src, dst) ==
    convert_excel_to_csv([fs EXCEPT ![dst] = NoFile], src, dst,
                         NumRows(fs, src) + 1).fs[dst]

\* C7: a successful conversion leaves at the destination what it would leave
\* at a fresh path (the old content is overwritten, not appended to), and
\* repeating a successful conversion leaves the destination as it was.
C7_Idempotent ==
    [][(last'.fn = "convert_excel_to_csv" /\ last'.raised = "none")
         => /\ fs'[last'.path] = FreshOutput(last'.src, last'.path)
            /\ (last = last' => fs'[last'.path] = fs[last'.path])]_vars

C7_Witness == LastConvertOk /\ last.overwrote

-----------------------------------------------------------------------------
\* Properties of delete_file

\* C4: delete_file returns normally whatever os.remove answers.
C4_NeverRaises == last.fn = "delete_file" => last.raised = "none"

C4_Witness == last.fn = "delete_file" /\ last.log = "An error occurred"

\* C5: delete_file on a path that holds no file returns normally and leaves
\* every file as it was.
C5_MissingNoEffect ==
    [][(last'.fn = "delete_file" /\ fs[last'.path].kind = "absent")
         => (last'.raised = "none" /\ fs' = fs)]_vars

C5_Witness ==
    /\ last.fn = "delete_file"
    /\ last.log = "not found"
    /\ \E p \in CsvPaths : fs[p].kind = "text"

\* C6: delete_file on a path that holds a file the OS will remove leaves no
\* file at that path and every other path as it was.
C6_RemovesOnlyTarget ==
    [][(/\ last'.fn = "delete_file"
        /\ fs[last'.path].kind # "absent"
        /\ last'.path \notin undeletable)
         => /\ fs'[last'.path] = NoFile
            /\ \A q \in Paths \ {last'.path} : fs'[q] = fs[q]]_vars

C6_Witness ==
    /\ last.fn = "delete_file"
    /\ last.log = "has been deleted"
    /\ fs[last.path] = NoFile
    /\ \E q \in CsvPaths : fs[q].kind = "text"

-----------------------------------------------------------------------------
\* Properties of the DAG

ConverterTasks(t) ==
    {x \in dag.tasks : /\ x.python_callable = "convert_excel_to_csv"
                       /\ x.op_args = <<excel_path(t), csv_path(t)>>}

StageTasks(t) == {x \in dag.tasks : x.sql = stage_sql(t)}

LoadTasks(t) == {x \in dag.tasks : x.sql = copy_sql(t)}

ReaperTasks(t) ==
    {x \in dag.tasks : /\ x.python_callable = "delete_file"
                       /\ x.op_args = <<csv_path(t)>>}

\* C8: once the DAG file has run, every table has its own Converter and its
\* own Reaper, each on that table's paths, and no task of another table is
\* handed one of them.
C8_IndependentChains ==
    dag.state # "unloaded" =>
        \A t \in Tables :
            /\ Cardinality(ConverterTasks(t)) = 1
            /\ Cardinality(ReaperTasks(t)) = 1
            /\ \A x \in dag.tasks \ (ConverterTasks(t) \cup ReaperTasks(t)) :
                  Range(x.op_args) \cap {excel_path(t), csv_path(t)} = {}

\* C9: once the DAG file has run, every table has one chain of exactly four
\* tasks, Converter >> stage-upload >> warehouse-load >> Reaper, the Reaper
\* on the path the Converter writes, and the DAG has no other task or edge.
C9_LinearChains ==
    dag.state # "unloaded" =>
        /\ Cardinality(dag.tasks) = 4 * Len(table_names)
        /\ Cardinality(dag.edges) = 3 * Len(table_names)
        /\ \A t \in Tables :
              \E c \in ConverterTasks(t), s \in StageTasks(t),
                 l \in LoadTasks(t), r \in ReaperTasks(t) :
                  {<<c.task_id, s.task_id>>, <<s.task_id, l.task_id>>,
                   <<l.task_id, r.task_id>>} \subseteq dag.edges

====
